---- MODULE Spec2Model ----
(***************************************************************************)
(* Wildfire risk prediction service.                                       *)
(*                                                                         *)
(* Two predict handlers exist in the repository:                           *)
(*   "main"   - src/main.py: additive point rule with historical           *)
(*              reconciliation;                                            *)
(*   "legacy" - src/backend/src/main.py: linear FDI formula.               *)
(* Both call src/backend/src/crud.py and build their persistence request   *)
(* with src/backend/src/schemas.py.                                        *)
(*                                                                         *)
(* A request is a position (pc) in its handler plus the handler's locals.  *)
(* The handlers read temperature, humidity, wind_speed and                 *)
(* vegetation_index off input_data; the request of the model carries these *)
(* four values and the location id.                                        *)
(*                                                                         *)
(* Numbers: temperature, humidity and wind_speed are integers;             *)
(* vegetation_index is kept in hundredths (0.5 is 50, 0.7 is 70), and the  *)
(* FDI in hundredths as well.                                              *)
(***************************************************************************)
EXTENDS Integers, Sequences, FiniteSets, TLC

VARIABLES
    location,         \* rows of table "location"
    historical_data,  \* location_id -> descriptions of its historical rows, by date
    predictions,      \* rows of table "predictions", in insertion order
    pc,               \* request -> position in its handler
    app,              \* request -> which handler serves it
    input_data,       \* request -> the values the handler reads off its body
    historical_risk,  \* request -> local historical_risk
    risk_score,       \* request -> local risk_score
    risk_level,       \* request -> local risk_level
    response,         \* request -> HTTP status answered, 0 while none
    create_location_calls,  \* caller of crud.create_location -> its position,
                            \* its region_name and how the call ended
    endpoint_db,      \* endpoint.py: its tables users, location, predictions
                      \* and the sequence behind each primary key
    endpoint_response,  \* endpoint.py: the answer to the client's last request
    posted            \* endpoint.py client, as in tests/test_main.py: per table,
                      \* the << id answered, value posted >> of each created record

vars == << location, historical_data, predictions, pc, app, input_data,
           historical_risk, risk_score, risk_level, response,
           create_location_calls, endpoint_db, endpoint_response, posted >>

\* what the predict and GET handlers of src/main.py never touch
other_apps == << create_location_calls, endpoint_db, endpoint_response, posted >>

\* what crud.create_location and the endpoint.py app never touch
requests == << pc, app, input_data, historical_risk, risk_score, risk_level,
              response >>

----------------------------------------------------------------------------
(* Bounds of the model *)

MaxReqs == 2
MaxRecs == 3
MaxCallers == 2   \* concurrent callers of crud.create_location
MaxCreates == 2   \* inserts tried per table of the endpoint.py app

Reqs == 1 .. MaxReqs
Callers == 1 .. MaxCallers
LocIds == {1, 2}

\* a local that has not been assigned yet
NotRun == "NotRun"

----------------------------------------------------------------------------
(* Text of a historical record: a sequence of characters *)

HIGH == << "H", "I", "G", "H" >>

Upper(c) ==
    CASE c = "h" -> "H"
      [] c = "i" -> "I"
      [] c = "g" -> "G"
      [] c = "l" -> "L"
      [] c = "o" -> "O"
      [] c = "w" -> "W"
      [] c = "x" -> "X"
      [] OTHER -> c

\* str.upper()
upper(s) == [i \in 1 .. Len(s) |-> Upper(s[i])]

\* Python's  sub in s
contains(sub, s) ==
    \E i \in 1 .. (Len(s) - Len(sub) + 1) : SubSeq(s, i, i + Len(sub) - 1) = sub

\* sum(1 for data in recs if "HIGH" in data.historical_data.upper())
RECURSIVE high_risk_count(_)
high_risk_count(recs) ==
    IF recs = << >> THEN 0
    ELSE (IF contains(HIGH, upper(Head(recs))) THEN 1 ELSE 0)
         + high_risk_count(Tail(recs))

\* [data for data in historical_data
\*    if data.historical_data and isinstance(data.historical_data, str)]
RECURSIVE valid_historical_data(_)
valid_historical_data(recs) ==
    IF recs = << >> THEN << >>
    ELSE IF Len(Head(recs)) > 0
         THEN << Head(recs) >> \o valid_historical_data(Tail(recs))
         ELSE valid_historical_data(Tail(recs))

\* src/main.py: no filter; "Unknown" for an empty list; strict majority with
\* real division: count > len / 2  is  2 * count > len
historical_risk_main(recs) ==
    IF recs # << >>
    THEN IF 2 * high_risk_count(recs) > Len(recs) THEN "High" ELSE "Low"
    ELSE "Unknown"

\* src/backend/src/main.py: filtered list; "Low" whenever not a majority
historical_risk_legacy(recs) ==
    LET valid == valid_historical_data(recs) IN
    IF Len(valid) > 0 /\ 2 * high_risk_count(valid) > Len(valid)
    THEN "High" ELSE "Low"

----------------------------------------------------------------------------
(* src/main.py predict: range checks, additive point rule, reconciliation *)

\* the three range checks, in order; 0 when all pass, else the status raised
validate_ranges(d) ==
    IF ~ (0 <= d.temperature /\ d.temperature <= 60) THEN 400
    ELSE IF ~ (0 <= d.humidity /\ d.humidity <= 100) THEN 400
    ELSE IF ~ (0 <= d.wind_speed /\ d.wind_speed <= 150) THEN 400
    ELSE 0

temperature_points(d) ==
    IF d.temperature > 35 THEN 3
    ELSE IF d.temperature > 30 THEN 2
    ELSE 0

\* the comparison turned round: humid air scoring the points
humidity_points_flipped(d) ==
    IF d.humidity > 30 THEN 2 ELSE 0

humidity_points(d) ==
    IF d.humidity < 30 THEN 2 ELSE 0

wind_speed_points(d) ==
    IF d.wind_speed > 20 THEN 3
    ELSE IF d.wind_speed > 15 THEN 2
    ELSE 0

\* the other reading of the 0.5 boundary: <= 0.5 scores 3
vegetation_index_points_le(d) ==
    IF d.vegetation_index <= 50 THEN 3
    ELSE IF d.vegetation_index < 70 THEN 2
    ELSE 0

vegetation_index_points(d) ==
    IF d.vegetation_index < 50 THEN 3
    ELSE IF d.vegetation_index < 70 THEN 2
    ELSE 0

\* risk_score kept in one place for all requests and not reset: a request
\* starts from what the requests still in flight have left there
compute_risk_score_shared(d) ==
    Cardinality({q \in Reqs : pc[q] \in {"classify", "reconcile", "persist"}})
    + (IF d.temperature > 35 THEN 3 ELSE IF d.temperature > 30 THEN 2 ELSE 0)
    + (IF d.humidity < 30 THEN 2 ELSE 0)
    + (IF d.wind_speed > 20 THEN 3 ELSE IF d.wind_speed > 15 THEN 2 ELSE 0)
    + (IF d.vegetation_index < 50 THEN 3
       ELSE IF d.vegetation_index < 70 THEN 2 ELSE 0)

\* if ... if  in place of  if ... elif: both branches of a variable add up
compute_risk_score_nonexclusive(d) ==
    (IF d.temperature > 35 THEN 3 ELSE 0) + (IF d.temperature > 30 THEN 2 ELSE 0)
    + (IF d.humidity < 30 THEN 2 ELSE 0)
    + (IF d.wind_speed > 20 THEN 3 ELSE 0) + (IF d.wind_speed > 15 THEN 2 ELSE 0)
    + (IF d.vegetation_index < 50 THEN 3 ELSE 0)
    + (IF d.vegetation_index < 70 THEN 2 ELSE 0)

\* risk_score = 0, then one  +=  per variable
compute_risk_score(d) ==
    LET s0 == 0
        s1 == s0 + temperature_points(d)
        s2 == s1 + humidity_points(d)
        s3 == s2 + wind_speed_points(d)
        s4 == s3 + vegetation_index_points(d)
    IN  s4

\* a score of exactly 8 taken as Moderate
determine_risk_level_gt(score) ==
    IF score > 8 THEN "High"
    ELSE IF score >= 5 THEN "Moderate"
    ELSE "Low"

determine_risk_level(score) ==
    IF score >= 8 THEN "High"
    ELSE IF score >= 5 THEN "Moderate"
    ELSE "Low"

\* a high historical risk raising every level to High
incorporate_historical_risk_to_high(hist, level) ==
    IF hist = "High" /\ level # "High" THEN "High" ELSE level

incorporate_historical_risk(hist, level) ==
    IF hist = "High" /\ level # "High" THEN "Moderate" ELSE level

----------------------------------------------------------------------------
(* The FDI formula, in hundredths *)

fdi_of(d) ==
    200 * d.temperature - 50 * d.humidity + 30 * d.wind_speed - d.vegetation_index

\* the historical risk, which the legacy handler computes, put to use as in
\* src/main.py
legacy_risk_level_reconciled(d) ==
    LET level == IF fdi_of(d) >= 7500 THEN "High"
                 ELSE IF fdi_of(d) >= 5000 THEN "Moderate"
                 ELSE "Low"
    IN  IF historical_risk_legacy(historical_data[d.location_id]) = "High"
           /\ level # "High"
        THEN "Moderate" ELSE level

\* src/backend/src/main.py predict
legacy_risk_level(d) ==
    IF fdi_of(d) >= 7500 THEN "High"
    ELSE IF fdi_of(d) >= 5000 THEN "Moderate"
    ELSE "Low"

\* src/backend/src/crud.py create_prediction: the level it stores
create_prediction_risk_level(d) ==
    IF fdi_of(d) >= 7500 THEN "High"
    ELSE IF fdi_of(d) >= 5000 THEN "Moderate"
    ELSE "Low"

----------------------------------------------------------------------------
(* Schemas and tables *)

\* the values of RiskLevelEnum
RiskLevelEnum == {"LOW", "MEDIUM", "HIGH"}

\* pydantic accepts PredictionCreate(risk_level=level, ...) iff level is a value
\* of the enum
PredictionCreate_accepts(level) == level \in RiskLevelEnum

\* column predictions.risk_level is ENUM(RiskLevelEnum)
Prediction_accepts(level) == level \in RiskLevelEnum

\* crud.get_location: the row, if any
get_location(id) == {l \in location : l.location_id = id}

\* the status a handler answers when something other than an HTTPException is
\* raised in its try block
internal_error_status(a) == 500

\* the status a handler answers when crud raises CRUDException
crud_error_status(a) == IF a = "legacy" THEN 400 ELSE 500

\* the status a handler answers when it raises HTTPException(404) itself:
\* src/main.py re-raises it, the legacy handler's  except Exception  catches it
not_found_status(a) == IF a = "legacy" THEN 500 ELSE 404

----------------------------------------------------------------------------
(* Requests *)

Apps == {"main", "legacy"}

Body(loc, t, h, w, v) ==
    [location_id |-> loc, temperature |-> t, humidity |-> h,
     wind_speed |-> w, vegetation_index |-> v]

NoBody == Body(0, 0, 0, 0, 0)

\* descriptions a historical row may hold: "", "high", "xHIGH", "low", "hig"
Descriptions ==
    { << >>,
      << "h", "i", "g", "h" >>,
      << "x", "H", "I", "G", "H" >>,
      << "l", "o", "w" >>,
      << "h", "i", "g" >> }

RecordLists == UNION { [1 .. n -> Descriptions] : n \in 0 .. MaxRecs }

\* a few histories: none, mostly high, mostly low, and one with an empty text
SampleHistories ==
    { << >>,
      << << "h", "i", "g", "h" >> >>,
      << << "l", "o", "w" >>, << "x", "H", "I", "G", "H" >> >>,
      << << >>, << "h", "i", "g", "h" >> >> }

\* values around every breakpoint of the point rule and of the range checks
GridTemperature == {-10, 0, 30, 31, 32, 35, 36, 40, 60, 61}
GridHumidity == {-1, 0, 20, 25, 29, 30, 50, 100, 101}
GridWindSpeed == {-1, 0, 10, 15, 16, 20, 21, 25, 150, 160}
GridVegetation == {-10, 0, 30, 49, 50, 60, 69, 70, 80, 100, 150}

GridBodies ==
    { Body(1, t, h, w, v) : t \in GridTemperature, h \in GridHumidity,
                            w \in GridWindSpeed, v \in GridVegetation }

\* the spec's scenarios A, B and D, out-of-range bodies, an unknown location
SampleBodies ==
    { Body(1, 40, 20, 25, 30),
      Body(1, 32, 50, 10, 80),
      Body(1, 31, 25, 16, 60),
      Body(1, -10, 50, 10, 80),
      Body(1, 32, 50, 160, 80),
      Body(1, 32, 50, 10, 150),
      Body(2, 40, 20, 25, 30) }

InitRequests ==
    /\ pc = [r \in Reqs |-> "idle"]
    /\ app = [r \in Reqs |-> "main"]
    /\ input_data = [r \in Reqs |-> NoBody]
    /\ historical_risk = [r \in Reqs |-> NotRun]
    /\ risk_score = [r \in Reqs |-> NotRun]
    /\ risk_level = [r \in Reqs |-> NotRun]
    /\ response = [r \in Reqs |-> 0]

InitTables(histories) ==
    /\ location = { [location_id |-> 1, region_name |-> "Test Region"] }
    /\ \E recs \in histories :
           historical_data = [l \in LocIds |-> IF l = 1 THEN recs ELSE << >>]
    /\ predictions = << >>

\* no call of crud.create_location is running
InitCalls ==
    create_location_calls =
        [c \in Callers |-> [pc |-> "idle", region_name |-> "", result |-> ""]]

\* Base.metadata.create_all: the tables of endpoint.py exist and are empty
InitEndpoint ==
    /\ endpoint_db = [users |-> {}, location |-> {}, predictions |-> {},
                      seq |-> [users |-> 0, location |-> 0, predictions |-> 0]]
    /\ endpoint_response = [op |-> "none", table |-> "", id |-> 0,
                            status |-> 0, body |-> ""]
    /\ posted = [users |-> {}, location |-> {}, predictions |-> {}]

Init == InitTables(SampleHistories) /\ InitRequests /\ InitCalls /\ InitEndpoint

----------------------------------------------------------------------------
(* Handler steps *)

\* POST /predict/ arrives at handler a with body d
receive(r, a, d) ==
    /\ pc[r] = "idle"
    /\ pc' = [pc EXCEPT ![r] = "lookup"]
    /\ app' = [app EXCEPT ![r] = a]
    /\ input_data' = [input_data EXCEPT ![r] = d]
    /\ UNCHANGED other_apps
    /\ UNCHANGED << location, historical_data, predictions, historical_risk,
                    risk_score, risk_level, response >>

\* the answer has gone out: the handler's frame is gone and the slot is free
\* for the next request
respond(r) ==
    /\ pc[r] = "done"
    /\ pc' = [pc EXCEPT ![r] = "idle"]
    /\ app' = [app EXCEPT ![r] = "main"]
    /\ input_data' = [input_data EXCEPT ![r] = NoBody]
    /\ historical_risk' = [historical_risk EXCEPT ![r] = NotRun]
    /\ risk_score' = [risk_score EXCEPT ![r] = NotRun]
    /\ risk_level' = [risk_level EXCEPT ![r] = NotRun]
    /\ response' = [response EXCEPT ![r] = 0]
    /\ UNCHANGED other_apps
    /\ UNCHANGED << location, historical_data, predictions >>

\* location = await crud.get_location(...); if not location: raise 404
lookup(r) ==
    /\ pc[r] = "lookup"
    /\ IF get_location(input_data[r].location_id) = {}
       THEN /\ pc' = [pc EXCEPT ![r] = "done"]
            /\ response' = [response EXCEPT ![r] = not_found_status(app[r])]
       ELSE /\ pc' = [pc EXCEPT ![r] = "fetch"]
            /\ UNCHANGED response
    /\ UNCHANGED other_apps
    /\ UNCHANGED << location, historical_data, predictions, app, input_data,
                    historical_risk, risk_score, risk_level >>

\* historical_data = await crud.get_historical_data_by_location(...), then the
\* handler's aggregation
aggregate(r) ==
    /\ pc[r] = "fetch"
    /\ LET recs == historical_data[input_data[r].location_id] IN
       IF app[r] = "main"
       THEN /\ historical_risk' =
                   [historical_risk EXCEPT ![r] = historical_risk_main(recs)]
            /\ pc' = [pc EXCEPT ![r] = "validate"]
       ELSE /\ historical_risk' =
                   [historical_risk EXCEPT ![r] = historical_risk_legacy(recs)]
            /\ pc' = [pc EXCEPT ![r] = "fdi"]
    /\ UNCHANGED other_apps
    /\ UNCHANGED << location, historical_data, predictions, app, input_data,
                    risk_score, risk_level, response >>

\* src/main.py: the range checks
validate(r) ==
    /\ pc[r] = "validate"
    /\ IF validate_ranges(input_data[r]) # 0
       THEN /\ pc' = [pc EXCEPT ![r] = "done"]
            /\ response' = [response EXCEPT ![r] = validate_ranges(input_data[r])]
       ELSE /\ pc' = [pc EXCEPT ![r] = "score"]
            /\ UNCHANGED response
    /\ UNCHANGED other_apps
    /\ UNCHANGED << location, historical_data, predictions, app, input_data,
                    historical_risk, risk_score, risk_level >>

\* src/main.py: the point rule
score(r) ==
    /\ pc[r] = "score"
    /\ risk_score' = [risk_score EXCEPT ![r] = compute_risk_score(input_data[r])]
    /\ pc' = [pc EXCEPT ![r] = "classify"]
    /\ UNCHANGED other_apps
    /\ UNCHANGED << location, historical_data, predictions, app, input_data,
                    historical_risk, risk_level, response >>

\* src/main.py: the level of the score
classify(r) ==
    /\ pc[r] = "classify"
    /\ risk_level' = [risk_level EXCEPT ![r] = determine_risk_level(risk_score[r])]
    /\ pc' = [pc EXCEPT ![r] = "reconcile"]
    /\ UNCHANGED other_apps
    /\ UNCHANGED << location, historical_data, predictions, app, input_data,
                    historical_risk, risk_score, response >>

\* src/main.py: the historical risk raises the level
reconcile(r) ==
    /\ pc[r] = "reconcile"
    /\ risk_level' = [risk_level EXCEPT ![r] =
                         incorporate_historical_risk(historical_risk[r], risk_level[r])]
    /\ pc' = [pc EXCEPT ![r] = "persist"]
    /\ UNCHANGED other_apps
    /\ UNCHANGED << location, historical_data, predictions, app, input_data,
                    historical_risk, risk_score, response >>

\* src/backend/src/main.py: the FDI and its level
legacy_fdi(r) ==
    /\ pc[r] = "fdi"
    /\ risk_level' = [risk_level EXCEPT ![r] = legacy_risk_level(input_data[r])]
    /\ pc' = [pc EXCEPT ![r] = "persist"]
    /\ UNCHANGED other_apps
    /\ UNCHANGED << location, historical_data, predictions, app, input_data,
                    historical_risk, risk_score, response >>

\* the keyword arguments of schemas.PredictionCreate(...) in src/main.py: what
\* the handler hands to persistence; date_generated is datetime.now(timezone.utc),
\* written here as its origin, the clock
prediction_arguments(r) ==
    [location_id |-> input_data[r].location_id,
     risk_level |-> risk_level[r],
     date_generated |-> "clock"]

\* the row added and committed before the level is checked: the request ends
\* in an error and its row stays
persist_no_rollback(r) ==
    /\ pc[r] = "persist"
    /\ pc' = [pc EXCEPT ![r] = "done"]
    /\ predictions' = Append(predictions,
           [prediction_id |-> Len(predictions) + 1,
            location_id |-> input_data[r].location_id,
            risk_level |-> create_prediction_risk_level(input_data[r])])
    /\ response' = [response EXCEPT ![r] =
           IF PredictionCreate_accepts(risk_level[r])
           THEN 200 ELSE internal_error_status(app[r])]
    /\ UNCHANGED other_apps
    /\ UNCHANGED << location, historical_data, app, input_data,
                    historical_risk, risk_score, risk_level >>

\* prediction = schemas.PredictionCreate(risk_level=risk_level, ...), then
\* await crud.create_prediction(db, prediction), which stores the level it
\* computes itself; any exception ends the request with an error status and
\* nothing stored
persist(r) ==
    /\ pc[r] = "persist"
    /\ pc' = [pc EXCEPT ![r] = "done"]
    /\ LET d == input_data[r]
           stored == create_prediction_risk_level(d)
       IN
       IF ~ PredictionCreate_accepts(risk_level[r])
       THEN /\ response' = [response EXCEPT ![r] = internal_error_status(app[r])]
            /\ UNCHANGED predictions
       ELSE IF get_location(d.location_id) = {} \/ ~ Prediction_accepts(stored)
       THEN /\ response' = [response EXCEPT ![r] = crud_error_status(app[r])]
            /\ UNCHANGED predictions
       ELSE /\ predictions' = Append(predictions,
                   [prediction_id |-> Len(predictions) + 1,
                    location_id |-> d.location_id,
                    risk_level |-> stored])
            /\ response' = [response EXCEPT ![r] = 200]
    /\ UNCHANGED other_apps
    /\ UNCHANGED << location, historical_data, app, input_data,
                    historical_risk, risk_score, risk_level >>

\* the GET handlers of src/main.py
GetKinds == {"get_location", "get_predictions"}

\* the status answered for an HTTPException(status) raised inside a try block:
\* the status itself where  except HTTPException: raise  comes first, else the
\* 500 of  except Exception
raised_in_try(status, reraises) == IF reraises THEN status ELSE 500

\* crud.get_predictions_by_location: the rows of the location
get_predictions_by_location(id) ==
    SelectSeq(predictions, LAMBDA p : p.location_id = id)

\* GET /locations/{id} or GET /predictions/{id} arrives
receive_get(r, kind, id) ==
    /\ pc[r] = "idle"
    /\ pc' = [pc EXCEPT ![r] = "get"]
    /\ app' = [app EXCEPT ![r] = kind]
    /\ input_data' = [input_data EXCEPT ![r] = Body(id, 0, 0, 0, 0)]
    /\ UNCHANGED other_apps
    /\ UNCHANGED << location, historical_data, predictions, historical_risk,
                    risk_score, risk_level, response >>

\* src/main.py get_location
get_location_handler(r) ==
    /\ pc[r] = "get" /\ app[r] = "get_location"
    /\ pc' = [pc EXCEPT ![r] = "done"]
    /\ response' = [response EXCEPT ![r] =
           IF get_location(input_data[r].location_id) = {}
           THEN raised_in_try(404, FALSE) ELSE 200]
    /\ UNCHANGED other_apps
    /\ UNCHANGED << location, historical_data, predictions, app, input_data,
                    historical_risk, risk_score, risk_level >>

\* src/main.py get_predictions
get_predictions_handler(r) ==
    /\ pc[r] = "get" /\ app[r] = "get_predictions"
    /\ pc' = [pc EXCEPT ![r] = "done"]
    /\ response' = [response EXCEPT ![r] =
           IF get_predictions_by_location(input_data[r].location_id) = << >>
           THEN raised_in_try(404, FALSE) ELSE 200]
    /\ UNCHANGED other_apps
    /\ UNCHANGED << location, historical_data, predictions, app, input_data,
                    historical_risk, risk_score, risk_level >>

step(r) ==
    \/ lookup(r)
    \/ aggregate(r)
    \/ validate(r)
    \/ score(r)
    \/ classify(r)
    \/ reconcile(r)
    \/ legacy_fdi(r)
    \/ persist(r)
    \/ respond(r)

Next ==
    \/ \E r \in Reqs :
           pc[r] = "idle" /\ \E a \in Apps, d \in SampleBodies : receive(r, a, d)
    \/ \E r \in Reqs : step(r)
    \/ \E r \in Reqs :
           pc[r] = "idle" /\ \E k \in GetKinds, id \in LocIds : receive_get(r, k, id)
    \/ \E r \in Reqs : get_location_handler(r)
    \/ \E r \in Reqs : get_predictions_handler(r)

Spec == Init /\ [][Next]_vars

----------------------------------------------------------------------------
(* The scorer alone: one request at a time through src/main.py, its body      *)
(* drawn from the grid                                                       *)

NextScore ==
    \/ pc[1] = "idle" /\ \E d \in GridBodies : receive(1, "main", d)
    \/ lookup(1)
    \/ aggregate(1)
    \/ validate(1)
    \/ score(1)
    \/ classify(1)
    \/ reconcile(1)
    \/ persist(1)
    \/ respond(1)

SpecScore == Init /\ [][NextScore]_vars

----------------------------------------------------------------------------
(* The FDI path alone: one request at a time through the legacy handler, its *)
(* body drawn from the grid                                                  *)

NextLegacy ==
    \/ pc[1] = "idle" /\ \E d \in GridBodies : receive(1, "legacy", d)
    \/ lookup(1)
    \/ aggregate(1)
    \/ legacy_fdi(1)
    \/ persist(1)
    \/ respond(1)

SpecLegacy == Init /\ [][NextLegacy]_vars

----------------------------------------------------------------------------
(* The aggregators alone: every list of up to MaxRecs records, one request  *)
(* at a time through either handler                                         *)

InitAgg == InitTables(RecordLists) /\ InitRequests /\ InitCalls /\ InitEndpoint

NextAgg ==
    \/ pc[1] = "idle" /\ \E a \in Apps, d \in SampleBodies : receive(1, a, d)
    \/ step(1)

SpecAgg == InitAgg /\ [][NextAgg]_vars

----------------------------------------------------------------------------
(* crud.create_location: the existence check, then the insert and commit *)

RegionNames == {"Test Region", "North", "South"}

\* the two messages create_location raises a CRUDException with
already_exists == "CRUDException: Region name already exists"
error_creating == "CRUDException: Error creating location"

\* existing = select(Location).where(Location.region_name == name)
existing(name) == {l \in location : l.region_name = name}

\* the primary key the database gives the next row of table location
next_location_id ==
    IF location = {} THEN 1
    ELSE 1 + CHOOSE m \in {l.location_id : l \in location} :
                 \A l \in location : l.location_id <= m

\* create_location(db, location) is called
call_create_location(c, name) ==
    /\ create_location_calls[c].pc = "idle"
    /\ create_location_calls' = [create_location_calls EXCEPT ![c] =
           [pc |-> "check", region_name |-> name, result |-> ""]]
    /\ UNCHANGED << location, historical_data, predictions, endpoint_db,
                    endpoint_response, posted >>
    /\ UNCHANGED requests

\* existing = await db.execute(...); if existing.scalar_one_or_none(): raise
check_existing(c) ==
    /\ create_location_calls[c].pc = "check"
    /\ create_location_calls' = [create_location_calls EXCEPT ![c] =
           IF existing(@.region_name) # {}
           THEN [@ EXCEPT !.pc = "done", !.result = already_exists]
           ELSE [@ EXCEPT !.pc = "commit"]]
    /\ UNCHANGED << location, historical_data, predictions, endpoint_db,
                    endpoint_response, posted >>
    /\ UNCHANGED requests

\* the insert with no unique constraint on region_name
commit_location_not_unique(c) ==
    /\ create_location_calls[c].pc = "commit"
    /\ location' = location \cup
           { [location_id |-> next_location_id,
              region_name |-> create_location_calls[c].region_name] }
    /\ create_location_calls' = [create_location_calls EXCEPT ![c] =
           [@ EXCEPT !.pc = "done", !.result = "created"]]
    /\ UNCHANGED << historical_data, predictions, endpoint_db,
                    endpoint_response, posted >>
    /\ UNCHANGED requests

\* db.add(new_location); await db.commit(): the insert fails on the unique
\* constraint of region_name when the name is stored by now, and the
\* SQLAlchemyError is answered with a rollback and a CRUDException
commit_location(c) ==
    /\ create_location_calls[c].pc = "commit"
    /\ IF existing(create_location_calls[c].region_name) # {}
       THEN /\ UNCHANGED location
            /\ create_location_calls' = [create_location_calls EXCEPT ![c] =
                   [@ EXCEPT !.pc = "done", !.result = error_creating]]
       ELSE /\ location' = location \cup
                   { [location_id |-> next_location_id,
                      region_name |-> create_location_calls[c].region_name] }
            /\ create_location_calls' = [create_location_calls EXCEPT ![c] =
                   [@ EXCEPT !.pc = "done", !.result = "created"]]
    /\ UNCHANGED << historical_data, predictions, endpoint_db,
                    endpoint_response, posted >>
    /\ UNCHANGED requests

\* the call has returned or raised: the caller is free for its next call
return_create_location(c) ==
    /\ create_location_calls[c].pc = "done"
    /\ create_location_calls' = [create_location_calls EXCEPT ![c] =
           [pc |-> "idle", region_name |-> "", result |-> ""]]
    /\ UNCHANGED << location, historical_data, predictions, endpoint_db,
                    endpoint_response, posted >>
    /\ UNCHANGED requests

NextLocations ==
    \/ \E c \in Callers :
           create_location_calls[c].pc = "idle"
           /\ \E name \in RegionNames : call_create_location(c, name)
    \/ \E c \in Callers : check_existing(c)
    \/ \E c \in Callers : commit_location(c)
    \/ \E c \in Callers : return_create_location(c)

SpecLocations == Init /\ [][NextLocations]_vars

----------------------------------------------------------------------------
(* The endpoint.py app: create and read of users, locations, predictions *)

Emails == {"testuser@example.com", "other@example.com"}
EndpointRegions == {"Test Region", "North"}
PostedRiskLevels == {"HIGH", "LOW", "High"}
ReadIds == 1 .. (MaxCreates + 1)

\* class RiskLevelEnum(enum.Enum): member name -> value
endpoint_RiskLevelEnum == [LOW |-> "LOW", MEDIUM |-> "MEDIUM", HIGH |-> "HIGH"]

\* the query with its filter dropped: .first() of the whole table
query_first_unfiltered(rows, key, id) ==
    IF rows = {} THEN {} ELSE {CHOOSE x \in rows : TRUE}

\* db.query(M).filter(M.key == id).first(): no row or the one row of that key
query_first(rows, key, id) == {x \in rows : x[key] = id}

\* the next value of the sequence behind the primary key of table t
nextval(t) == endpoint_db.seq[t] + 1

\* the answer to a read: 404 for no row, else the row's field
read_answer(t, id, row, field, detail) ==
    IF row = {}
    THEN [op |-> "read", table |-> t, id |-> id, status |-> 404, body |-> detail]
    ELSE [op |-> "read", table |-> t, id |-> id, status |-> 200,
          body |-> (CHOOSE x \in row : TRUE)[field]]

\* the answer to a create that committed, and to one whose flush or commit
\* raised (nothing in the handler catches it)
created_answer(t, id, value) ==
    [op |-> "create", table |-> t, id |-> id, status |-> 200, body |-> value]
failed_answer(t) ==
    [op |-> "create", table |-> t, id |-> 0, status |-> 500,
     body |-> "Internal Server Error"]

\* GET /users/{user_id}
read_user(id) ==
    /\ endpoint_response' =
           read_answer("users", id, query_first(endpoint_db.users, "user_id", id),
                       "email", "User not found")
    /\ UNCHANGED << location, historical_data, predictions,
                    create_location_calls, endpoint_db, posted >>
    /\ UNCHANGED requests

\* POST /users: add, commit, refresh. The insert takes the next user_id and
\* fails when the email is stored already (unique=True).
create_user(email) ==
    /\ endpoint_db.seq.users < MaxCreates
    /\ LET id == nextval("users")
           ok == \A u \in endpoint_db.users : u.email # email
       IN  /\ endpoint_db' = [endpoint_db EXCEPT
                  !.seq.users = id,
                  !.users = IF ok THEN @ \cup {[user_id |-> id, email |-> email]}
                            ELSE @]
           /\ endpoint_response' =
                  IF ok THEN created_answer("users", id, email)
                  ELSE failed_answer("users")
           /\ posted' = IF ok THEN [posted EXCEPT !.users = @ \cup {<< id, email >>}]
                        ELSE posted
    /\ UNCHANGED << location, historical_data, predictions,
                    create_location_calls >>
    /\ UNCHANGED requests

\* GET /predictions/{prediction_id}: the stored member is answered by its value
read_prediction(id) ==
    /\ LET answer == read_answer("predictions", id,
                         query_first(endpoint_db.predictions, "prediction_id", id),
                         "risk_level", "Prediction not found")
       IN  endpoint_response' =
               IF answer.status = 200
               THEN [answer EXCEPT !.body = endpoint_RiskLevelEnum[@]]
               ELSE answer
    /\ UNCHANGED << location, historical_data, predictions,
                    create_location_calls, endpoint_db, posted >>
    /\ UNCHANGED requests

\* POST /predictions: add, commit, refresh. A risk_level that names no member
\* of RiskLevelEnum fails before the insert; the insert takes the next
\* prediction_id and fails when location_id refers to no location.
create_prediction(level, loc) ==
    /\ endpoint_db.seq.predictions < MaxCreates
    /\ IF level \notin DOMAIN endpoint_RiskLevelEnum
       THEN /\ endpoint_response' = failed_answer("predictions")
            /\ UNCHANGED << endpoint_db, posted >>
       ELSE LET id == nextval("predictions")
                ok == \E l \in endpoint_db.location : l.location_id = loc
            IN  /\ endpoint_db' = [endpoint_db EXCEPT
                       !.seq.predictions = id,
                       !.predictions =
                           IF ok
                           THEN @ \cup {[prediction_id |-> id, risk_level |-> level,
                                         location_id |-> loc]}
                           ELSE @]
                /\ endpoint_response' =
                       IF ok
                       THEN created_answer("predictions", id,
                                           endpoint_RiskLevelEnum[level])
                       ELSE failed_answer("predictions")
                /\ posted' =
                       IF ok
                       THEN [posted EXCEPT !.predictions = @ \cup {<< id, level >>}]
                       ELSE posted
    /\ UNCHANGED << location, historical_data, predictions,
                    create_location_calls >>
    /\ UNCHANGED requests

\* GET /locations/{location_id}
read_location(id) ==
    /\ endpoint_response' =
           read_answer("location", id,
                       query_first(endpoint_db.location, "location_id", id),
                       "region_name", "Location not found")
    /\ UNCHANGED << location, historical_data, predictions,
                    create_location_calls, endpoint_db, posted >>
    /\ UNCHANGED requests

\* POST /locations: add, commit, refresh. The insert takes the next
\* location_id and fails when the region_name is stored already (unique=True).
create_location(name) ==
    /\ endpoint_db.seq.location < MaxCreates
    /\ LET id == nextval("location")
           ok == \A l \in endpoint_db.location : l.region_name # name
       IN  /\ endpoint_db' = [endpoint_db EXCEPT
                  !.seq.location = id,
                  !.location =
                      IF ok THEN @ \cup {[location_id |-> id, region_name |-> name]}
                      ELSE @]
           /\ endpoint_response' =
                  IF ok THEN created_answer("location", id, name)
                  ELSE failed_answer("location")
           /\ posted' =
                  IF ok THEN [posted EXCEPT !.location = @ \cup {<< id, name >>}]
                  ELSE posted
    /\ UNCHANGED << location, historical_data, predictions,
                    create_location_calls >>
    /\ UNCHANGED requests

NextEndpoint ==
    \/ \E id \in ReadIds : read_user(id)
    \/ \E email \in Emails : create_user(email)
    \/ \E id \in ReadIds : read_prediction(id)
    \/ \E level \in PostedRiskLevels, loc \in 1 .. MaxCreates :
           create_prediction(level, loc)
    \/ \E id \in ReadIds : read_location(id)
    \/ \E name \in EndpointRegions : create_location(name)

SpecEndpoint == Init /\ [][NextEndpoint]_vars

----------------------------------------------------------------------------
(* The historical aggregation, as the specification states it *)

\* the records of the location request r is about
RecordsOf(r) == historical_data[input_data[r].location_id]

\* a record takes part when its description is present and non-empty text
PassesFilter(desc) == Len(desc) > 0

Filtered(recs) == SelectSeq(recs, PassesFilter)

\* the description holds the letters H, I, G, H in a row, in either case
MentionsHigh(desc) ==
    \E i \in 1 .. Len(desc) :
        /\ i + 3 <= Len(desc)
        /\ \A k \in 1 .. 4 : Upper(desc[i + k - 1]) = HIGH[k]

HighCount(recs) == Cardinality({i \in 1 .. Len(recs) : MentionsHigh(recs[i])})

AggregatorRan(r) == pc[r] \in {"validate", "fdi", "score", "classify", "reconcile", "persist"}

\* C1: the historical classification is High when the filtered records F are
\* non-empty and more than half of them mention HIGH, Low when F is non-empty
\* and at most half do, and Unknown when F is empty.
C1_MajorityOfFiltered ==
    \A r \in Reqs :
        AggregatorRan(r) =>
            LET F == Filtered(RecordsOf(r))
                h == HighCount(F)
            IN  historical_risk[r] =
                    IF F # << >> /\ 2 * h > Len(F) THEN "High"
                    ELSE IF F # << >> THEN "Low"
                    ELSE "Unknown"

\* C2: the classification is Unknown exactly when the record set is empty or
\* every record in it is filtered out.
C2_UnknownIffNothingUsable ==
    \A r \in Reqs :
        AggregatorRan(r) =>
            (historical_risk[r] = "Unknown" <=> Filtered(RecordsOf(r)) = << >>)

\* C3: records with an empty description take no part: the classification of
\* a record set is the one its handler gives to the set without them.
C3_UnusableRecordsTakeNoPart ==
    \A r \in Reqs :
        AggregatorRan(r) =>
            historical_risk[r] =
                IF app[r] = "main"
                THEN historical_risk_main(Filtered(RecordsOf(r)))
                ELSE historical_risk_legacy(Filtered(RecordsOf(r)))

----------------------------------------------------------------------------
(* The scorer of src/main.py, as the specification states it *)

TemperaturePoints(t) ==
    CASE t > 35 -> 3
      [] t > 30 /\ t <= 35 -> 2
      [] OTHER -> 0

HumidityPoints(h) ==
    CASE h < 30 -> 2
      [] OTHER -> 0

WindSpeedPoints(w) ==
    CASE w > 20 -> 3
      [] w > 15 /\ w <= 20 -> 2
      [] OTHER -> 0

VegetationPoints(v) ==
    CASE v < 50 -> 3
      [] v >= 50 /\ v < 70 -> 2
      [] OTHER -> 0

\* request r has been given a risk_score
Scored(r) == app[r] = "main" /\ pc[r] \in {"classify", "reconcile", "persist"}

\* C4: the risk_score is the sum of one contribution per variable, with 35, 20
\* and 0.5 in the +2 bucket and 30, 15 and 0.7 giving 0.
C4_PointRule ==
    \A r \in Reqs :
        Scored(r) =>
            /\ risk_score[r] =
                   TemperaturePoints(input_data[r].temperature)
                   + HumidityPoints(input_data[r].humidity)
                   + WindSpeedPoints(input_data[r].wind_speed)
                   + VegetationPoints(input_data[r].vegetation_index)
            /\ (input_data[r] = Body(1, 40, 20, 25, 30) => risk_score[r] = 11)

\* every variable on its +2 boundary: 35, 20 and 0.5, humidity 30 giving 0
C4_Witness ==
    \E r \in Reqs :
        /\ Scored(r)
        /\ input_data[r] = Body(1, 35, 30, 20, 50)
        /\ risk_score[r] = 4 + 2

\* C5: the base classification is High for a score >= 8, Moderate for
\* 5 <= score < 8 and Low below 5; scenario D scores 8 and is High.
C5_BaseClassification ==
    \A r \in Reqs :
        (app[r] = "main" /\ pc[r] = "reconcile") =>
            /\ risk_level[r] =
                   IF risk_score[r] >= 8 THEN "High"
                   ELSE IF risk_score[r] >= 5 /\ risk_score[r] < 8 THEN "Moderate"
                   ELSE "Low"
            /\ (input_data[r] = Body(1, 31, 25, 16, 60) =>
                    risk_score[r] = 8 /\ risk_level[r] = "High")
            /\ (input_data[r] = Body(1, 32, 50, 10, 80) =>
                    risk_score[r] = 2 /\ risk_level[r] = "Low")

C5_Witness ==
    \E r \in Reqs :
        /\ app[r] = "main" /\ pc[r] = "reconcile"
        /\ input_data[r] = Body(1, 31, 25, 16, 60)
        /\ risk_score[r] = 8
        /\ risk_level[r] = "High"

Rank(level) ==
    CASE level = "Low" -> 1
      [] level = "Moderate" -> 2
      [] level = "High" -> 3

\* C6: the reconciliation step turns a Low or Moderate base into Moderate and
\* keeps a High base when the historical classification is High, and keeps
\* the base otherwise; it never lowers a level and never makes a Low High.
C6_EscalationLaw ==
    [][ \A r \in Reqs :
          (app[r] = "main" /\ pc[r] = "reconcile" /\ pc'[r] = "persist") =>
              /\ historical_risk[r] = "High" /\ risk_level[r] \in {"Low", "Moderate"}
                     => risk_level'[r] = "Moderate"
              /\ historical_risk[r] = "High" /\ risk_level[r] = "High"
                     => risk_level'[r] = "High"
              /\ historical_risk[r] \in {"Low", "Unknown"}
                     => risk_level'[r] = risk_level[r]
              /\ Rank(risk_level'[r]) >= Rank(risk_level[r])
              /\ ~ (risk_level[r] = "Low" /\ risk_level'[r] = "High") ]_vars

\* scenario C: a score of 2 at a location with a high historical risk
C6_Witness ==
    \E r \in Reqs :
        /\ app[r] = "main" /\ pc[r] = "persist"
        /\ input_data[r] = Body(1, 32, 50, 10, 80)
        /\ historical_risk[r] = "High"
        /\ risk_score[r] = 2
        /\ risk_level[r] = "Moderate"

----------------------------------------------------------------------------
(* The request as a whole, as the specification states it *)

\* the declared ranges: temperature -50..60, humidity 0..100, wind_speed >= 0,
\* vegetation_index 0..1
InDeclaredRanges(d) ==
    /\ -50 <= d.temperature /\ d.temperature <= 60
    /\ 0 <= d.humidity /\ d.humidity <= 100
    /\ 0 <= d.wind_speed
    /\ 0 <= d.vegetation_index /\ d.vegetation_index <= 100

\* request r has been answered by src/main.py and its location exists
AnsweredForKnownLocation(r) ==
    /\ app[r] = "main"
    /\ pc[r] = "done"
    /\ get_location(input_data[r].location_id) # {}

C8_RejectedIffOutOfDeclaredRange ==
    \A r \in Reqs :
        AnsweredForKnownLocation(r) =>
            (response[r] = 400 <=> ~ InDeclaredRanges(input_data[r]))

\* C9: range validation completes before the aggregator or the scorer runs:
\* no request waits for validation with its historical risk computed, and a
\* request rejected by validation has run neither.
C9_ValidationBeforeCore ==
    \A r \in Reqs :
        app[r] = "main" =>
            /\ pc[r] = "validate" => historical_risk[r] = NotRun
            /\ (pc[r] = "done" /\ response[r] = 400) =>
                   (historical_risk[r] = NotRun /\ risk_score[r] = NotRun)

\* C10: a request for an existing location whose inputs are within the
\* declared ranges, and pass the handler's own checks as well, ends with
\* status 200 and its prediction stored.
C10_InRangeRequestSucceeds ==
    \A r \in Reqs :
        (/\ AnsweredForKnownLocation(r)
         /\ InDeclaredRanges(input_data[r])
         /\ validate_ranges(input_data[r]) = 0) =>
            /\ response[r] = 200
            /\ \E i \in 1 .. Len(predictions) :
                   predictions[i].location_id = input_data[r].location_id

----------------------------------------------------------------------------
(* Range and monotonicity of the score *)

\* C11: for every valid input, the risk_score produced with an Unknown
\* historical classification is an integer from 0 to 13.
C11_ScoreRange ==
    \A r \in Reqs :
        (Scored(r) /\ historical_risk[r] = "Unknown"
                   /\ InDeclaredRanges(input_data[r])) =>
            risk_score[r] \in 0 .. 13

\* scenario A, the highest score the rule gives
C11_Witness ==
    \E r \in Reqs :
        /\ Scored(r) /\ historical_risk[r] = "Unknown"
        /\ input_data[r] = Body(1, 40, 20, 25, 30)
        /\ risk_score[r] = 11

\* the valid bodies that differ from d in one field, moved in the direction
\* that is claimed not to lower the score
RiskierBodies(d) ==
    { e \in { [d EXCEPT !.temperature = t] : t \in GridTemperature }
            \cup { [d EXCEPT !.wind_speed = w] : w \in GridWindSpeed }
            \cup { [d EXCEPT !.vegetation_index = v] : v \in GridVegetation }
            \cup { [d EXCEPT !.humidity = h] : h \in GridHumidity } :
        /\ InDeclaredRanges(e)
        /\ e.temperature >= d.temperature
        /\ e.wind_speed >= d.wind_speed
        /\ e.vegetation_index <= d.vegetation_index
        /\ e.humidity <= d.humidity }

\* C12: raising temperature or wind_speed, or lowering vegetation_index or
\* humidity, one field at a time, never lowers the risk_score, nor the base
\* classification.
C12_Monotone ==
    \A r \in Reqs :
        (Scored(r) /\ InDeclaredRanges(input_data[r])) =>
            \A e \in RiskierBodies(input_data[r]) :
                /\ compute_risk_score(e) >= risk_score[r]
                /\ Rank(determine_risk_level(compute_risk_score(e)))
                       >= Rank(determine_risk_level(risk_score[r]))

\* scenario D with humidity 30 scores 6 and is Moderate; with humidity 25 it
\* scores 8 and is High
C12_Witness ==
    \E r \in Reqs :
        /\ Scored(r)
        /\ input_data[r] = Body(1, 31, 30, 16, 60)
        /\ risk_score[r] = 6
        /\ Body(1, 31, 25, 16, 60) \in RiskierBodies(input_data[r])
        /\ compute_risk_score(Body(1, 31, 25, 16, 60)) = 8

----------------------------------------------------------------------------
(* Requests do not influence one another *)

\* C13: two requests with the same body and the same historical
\* classification have the same risk_score and the same risk_level, whatever
\* ran before them or runs beside them.
C13_SameInputSameResult ==
    \A r1, r2 \in Reqs :
        (/\ app[r1] = "main" /\ app[r2] = "main"
         /\ input_data[r1] = input_data[r2]
         /\ historical_risk[r1] = historical_risk[r2]) =>
            /\ (Scored(r1) /\ Scored(r2)) => risk_score[r1] = risk_score[r2]
            /\ (pc[r1] = "persist" /\ pc[r2] = "persist") =>
                   risk_level[r1] = risk_level[r2]

\* two requests for scenario D in flight together, both scored 8 and High
C13_Witness ==
    \E r1, r2 \in Reqs :
        /\ r1 # r2
        /\ app[r1] = "main" /\ app[r2] = "main"
        /\ pc[r1] = "persist" /\ pc[r2] = "persist"
        /\ input_data[r1] = Body(1, 31, 25, 16, 60)
        /\ input_data[r2] = Body(1, 31, 25, 16, 60)
        /\ risk_score[r1] = 8 /\ risk_score[r2] = 8
        /\ risk_level[r1] = "High" /\ risk_level[r2] = "High"

----------------------------------------------------------------------------
(* What the scorer hands to persistence *)

\* C14: the assessment handed to persistence carries the raw risk_score with
\* the final risk_level, and its timestamp is the clock's, not the request's.
C14_AssessmentCarriesScore ==
    \A r \in Reqs :
        (app[r] = "main" /\ pc[r] = "persist") =>
            LET p == prediction_arguments(r) IN
            /\ "risk_level" \in DOMAIN p
            /\ p.risk_level = risk_level[r]
            /\ "date_generated" \in DOMAIN p
            /\ p.date_generated = "clock"
            /\ "risk_score" \in DOMAIN p
            /\ p.risk_score = risk_score[r]

----------------------------------------------------------------------------
(* The legacy FDI path, as the specification states it *)

\* FDI = 2*temperature - 0.5*humidity + 0.3*wind_speed - vegetation_index,
\* times 100
FdiHundredths(d) ==
    100 * (2 * d.temperature) - (100 * d.humidity) \div 2
    + 3 * (10 * d.wind_speed) - d.vegetation_index

\* C15: in the legacy path the risk_level is High for FDI >= 75, Moderate for
\* 50 <= FDI < 75 and Low otherwise, whatever the historical records of the
\* location are.
C15_FdiLevelOnly ==
    \A r \in Reqs :
        (app[r] = "legacy" /\ pc[r] = "persist") =>
            risk_level[r] =
                IF FdiHundredths(input_data[r]) >= 7500 THEN "High"
                ELSE IF FdiHundredths(input_data[r]) >= 5000
                        /\ FdiHundredths(input_data[r]) < 7500 THEN "Moderate"
                ELSE "Low"

\* a Low FDI at a location whose history is High stays Low
C15_Witness ==
    \E r \in Reqs :
        /\ app[r] = "legacy" /\ pc[r] = "persist"
        /\ input_data[r] = Body(1, 30, 50, 10, 80)
        /\ historical_risk[r] = "High"
        /\ risk_level[r] = "Low"

----------------------------------------------------------------------------
(* What a predict request writes *)

\* the step is one of predict request r
PredictStep(r) ==
    /\ pc[r] # pc'[r]
    /\ (IF pc[r] = "idle" THEN app'[r] ELSE app[r]) \in Apps

\* C17: a step of a predict request leaves the locations and the historical
\* records alone and adds at most one prediction, which it does only as the
\* request's last step and only when the request ends with 200.
C17_WritesPerPredict ==
    [][ \A r \in Reqs :
          PredictStep(r) =>
              /\ location' = location
              /\ historical_data' = historical_data
              /\ Len(predictions') <= Len(predictions) + 1
              /\ SubSeq(predictions', 1, Len(predictions)) = predictions
              /\ predictions' # predictions =>
                     (pc[r] = "persist" /\ pc'[r] = "done" /\ response'[r] = 200) ]_vars

\* two requests ended in errors, one at validation and one at persistence,
\* and nothing is stored
C17_Witness ==
    \E r1, r2 \in Reqs :
        /\ app[r1] = "main" /\ pc[r1] = "done" /\ response[r1] = 500
        /\ app[r2] = "main" /\ pc[r2] = "done" /\ response[r2] = 400
        /\ predictions = << >>

----------------------------------------------------------------------------
(* Not-found answers of src/main.py *)

\* C18: GET /locations/{id} for an id with no location and
\* GET /predictions/{id} for a location with no predictions answer 404, as
\* predict does for a missing location.
C18_NotFoundIs404 ==
    \A r \in Reqs :
        pc[r] = "done" =>
            /\ (app[r] = "get_location"
                /\ get_location(input_data[r].location_id) = {})
                   => response[r] = 404
            /\ (app[r] = "get_predictions"
                /\ get_predictions_by_location(input_data[r].location_id) = << >>)
                   => response[r] = 404
            /\ (app[r] = "main"
                /\ get_location(input_data[r].location_id) = {})
                   => response[r] = 404

----------------------------------------------------------------------------
(* Region names of stored locations *)

\* C19: under every interleaving of create_location calls no two stored
\* locations have the same region_name, and a call that ends while its name
\* is stored ends in a CRUDException and leaves the stored locations as they
\* were.
C19_RegionNameUnique ==
    /\ [](\A l1, l2 \in location :
              l1.region_name = l2.region_name => l1 = l2)
    /\ [][ \A c \in Callers :
             (/\ create_location_calls[c].pc # "done"
              /\ create_location_calls'[c].pc = "done"
              /\ existing(create_location_calls[c].region_name) # {})
             => /\ create_location_calls'[c].result
                       \in {already_exists, error_creating}
                /\ location' = location ]_vars

\* two calls for the new name "North" both passed the check; one has stored
\* it, the other failed at its commit
C19_Witness ==
    \E c1, c2 \in Callers :
        /\ create_location_calls[c1] =
               [pc |-> "done", region_name |-> "North", result |-> "created"]
        /\ create_location_calls[c2] =
               [pc |-> "done", region_name |-> "North", result |-> error_creating]
        /\ Cardinality(existing("North")) = 1

----------------------------------------------------------------------------
(* Create, then read, in the endpoint.py app *)

\* the values posted under id in table t
PostedAs(t, id) == {p[2] : p \in {q \in posted[t] : q[1] = id}}

\* C16: a GET by the id of a record the client created answers 200 with the
\* value that was posted (email, region_name, risk_level), and a GET by an id
\* no create has answered is answered with 404.
C16_RoundTrip ==
    endpoint_response.op = "read" =>
        LET values == PostedAs(endpoint_response.table, endpoint_response.id)
        IN  IF values = {}
            THEN endpoint_response.status = 404
            ELSE /\ endpoint_response.status = 200
                 /\ values = {endpoint_response.body}

\* after a failed and a successful create of each kind, the prediction
\* created second is read back
C16_Witness ==
    /\ posted.users # {} /\ posted.location # {}
    /\ endpoint_db.seq.users = 2 /\ Cardinality(endpoint_db.users) = 1
    /\ << 2, "HIGH" >> \in posted.predictions
    /\ endpoint_response = [op |-> "read", table |-> "predictions", id |-> 2,
                            status |-> 200, body |-> "HIGH"]

====
